---------------------------- MODULE Spec2Model ----------------------------
(***************************************************************************)
(* One run of Kenya().to_csv() (cowidev/vax/incremental/kenya.py): the     *)
(* landing page is searched for the bulletin's PDF link, the PDF is        *)
(* downloaded into a scoped temporary file and turned into page texts, the *)
(* counters and the date are parsed from the page texts, and one row is    *)
(* handed to increment().  Every page text is represented by what the      *)
(* regular expressions of the script find in it.                           *)
(***************************************************************************)
EXTENDS Integers, Sequences, FiniteSets, TLC

VARIABLES
    pc,                          \* position of the run in to_csv/read
    url_pdf,                     \* read: url_pdf
    requested,                   \* the PDF URLs handed to requests.get so far
    tf,                          \* TRUE while the NamedTemporaryFile exists
    pages,                       \* read: pages (marker, header, total row per page)
    front,                       \* what the page-one regexes find in pages[0]
    adults_total_vaccinations,   \* _parse_metrics locals
    adults_partially_vaccinated,
    people_fully_vaccinated,
    teenagers_first_doses,
    total_vaccinations,
    people_vaccinated,
    page_no,                     \* _extract_jj_doses: position of the for loop
    doses_jj,                    \* _extract_jj_doses: doses_jj
    date,                        \* read: date
    error,                       \* the exception that ended the run
    stages,                      \* the stages entered so far, in order
    incremented                  \* the rows increment() was called with

vars == <<pc, url_pdf, requested, tf, pages, front, adults_total_vaccinations,
          adults_partially_vaccinated, people_fully_vaccinated,
          teenagers_first_doses, total_vaccinations, people_vaccinated,
          page_no, doses_jj, date, error, stages, incremented>>

\* ------------------------------------------------------------------ bounds
\* Longest page list a bulletin has in the model.
MaxPages == 2

\* ------------------------------------------------------------- input space
None == "None"          \* Python's None, as soup.find returns it
Unbound == "unbound"    \* a local name that was never assigned
NoError == "no error"

\* re.search returned None.  Every capture group of the script is a +
\* repetition or a fixed phrase, so the text of a match is never empty.
NoMatch == <<>>

\* doses_jj before the loop of _extract_jj_doses has assigned it.
Unassigned == <<>>

Digits == {"0", "1", "2", "3", "4", "5", "6", "7", "8", "9"}

\* Texts the capture ([\d,.]+) of the primary-counter regex holds: figures
\* with thousands separators or a trailing point.
PrimaryCaptures == {<<"1", ",", "0">>, <<"2", ".">>, <<"7">>}

\* Texts the capture ([\d,]+) of the teen regex and of rex_jj holds.
TeenCaptures == {<<"3">>, <<"1", ",", "2">>}
JJCaptures == {<<"4">>, <<"2", ",", "1">>}

\* Texts group(2) of the date regex can hold: <<day word, month word, year>>.
DateCaptures == {<<"14th", "january", "2022">>, <<"xx", "foo", "2022">>}

\* pages[0] as the three page-one regexes see it.
Fronts == [primary : {NoMatch} \cup (PrimaryCaptures \X PrimaryCaptures \X PrimaryCaptures),
           teen    : {NoMatch} \cup TeenCaptures,
           date    : {NoMatch} \cup DateCaptures]

\* A page as _extract_jj_doses sees it: the "table 5: ..." marker string, the
\* header of that table, and the capture of its total row.  A page without
\* the marker carries no table 5.
Pages == {[marker |-> FALSE, header |-> FALSE, jj |-> NoMatch]}
         \cup [marker : {TRUE}, header : BOOLEAN, jj : {NoMatch} \cup JJCaptures]

PageLists == UNION {[1..n -> Pages] : n \in 1..MaxPages}

\* ------------------------------------------------------- pure conversions
DigitValue(c) ==
    CASE c = "0" -> 0 [] c = "1" -> 1 [] c = "2" -> 2 [] c = "3" -> 3
      [] c = "4" -> 4 [] c = "5" -> 5 [] c = "6" -> 6 [] c = "7" -> 7
      [] c = "8" -> 8 [] c = "9" -> 9

\* The capture with everything but its digits removed.
DigitsOf(s) == SelectSeq(s, LAMBDA c : c \in Digits)

RECURSIVE ToInt(_)
ToInt(ds) ==
    IF ds = <<>> THEN 0
    ELSE 10 * ToInt(SubSeq(ds, 1, Len(ds) - 1)) + DigitValue(ds[Len(ds)])

\* clean_count: the figure with its separators stripped, as an integer.
clean_count(s) == ToInt(DigitsOf(s))

\* pd.to_datetime on the captured date phrase.
DayOf(w) == CASE w = "14th" -> 14 [] OTHER -> 0
MonthOf(w) == CASE w = "january" -> 1 [] OTHER -> 0
ToDatetimeRaises(cap) == DayOf(cap[1]) = 0 \/ MonthOf(cap[2]) = 0
TwoDigits(n) == IF n < 10 THEN "0" \o ToString(n) ELSE ToString(n)
IsoDate(cap) ==
    cap[3] \o "-" \o TwoDigits(MonthOf(cap[2])) \o "-" \o TwoDigits(DayOf(cap[1]))


\* -------------------------------------------------------------- the stages
\* read() with the date parsed before the metrics.
ReadOrderDateFirst == <<"link", "pdf", "date", "metrics", "row">>

\* read(): the order of its statements.
ReadOrder == <<"link", "pdf", "metrics", "date", "row">>

\* Where each stage of read() starts.
EntryOf(stage) ==
    CASE stage = "link" -> "link"
      [] stage = "pdf" -> "tempfile"
      [] stage = "metrics" -> "metrics"
      [] stage = "date" -> "date"
      [] stage = "row" -> "row"

\* The position read() goes to when `stage` has returned.
After(stage) ==
    LET k == CHOOSE i \in 1..Len(ReadOrder) : ReadOrder[i] = stage
    IN  EntryOf(ReadOrder[k + 1])

PdfUrl == "https://www.health.go.ke/IMMUNIZATION.pdf"

Init ==
    /\ pc = EntryOf(ReadOrder[1])
    /\ url_pdf = Unbound
    /\ requested = <<>>
    /\ tf = FALSE
    /\ pages = <<>>
    /\ front = Unbound
    /\ adults_total_vaccinations = Unbound
    /\ adults_partially_vaccinated = Unbound
    /\ people_fully_vaccinated = Unbound
    /\ teenagers_first_doses = Unbound
    /\ total_vaccinations = Unbound
    /\ people_vaccinated = Unbound
    /\ page_no = 0
    /\ doses_jj = Unassigned
    /\ date = Unbound
    /\ error = NoError
    /\ stages = <<>>
    /\ incremented = <<>>

\* An exception nothing catches: the run ends.
Raise(e) == pc' = "failed" /\ error' = e

metricsLocals == <<adults_total_vaccinations, adults_partially_vaccinated,
                   people_fully_vaccinated, teenagers_first_doses,
                   total_vaccinations, people_vaccinated, page_no, doses_jj>>
document == <<pages, front>>

\* _parse_pdf_link as it would be with a lookup that yields None for a
\* missing anchor instead of raising.
ParsePdfLinkLenient ==
    /\ pc = "link"
    /\ stages' = Append(stages, "link")
    /\ \E landing \in {"unreachable", "no anchor", "anchor"} :
         CASE landing = "unreachable" -> Raise("get_soup") /\ UNCHANGED url_pdf
           [] landing = "no anchor" ->
                pc' = After("link") /\ url_pdf' = None /\ UNCHANGED error
           [] landing = "anchor" ->
                pc' = After("link") /\ url_pdf' = PdfUrl /\ UNCHANGED error
    /\ UNCHANGED <<requested, tf, document, metricsLocals, date, incremented>>

\* _parse_pdf_link: fetch the landing page, take the href of the first anchor
\* matching .*IMMUNIZATION.*pdf$; subscripting the None of a missing anchor
\* raises.
ParsePdfLink ==
    /\ pc = "link"
    /\ stages' = Append(stages, "link")
    /\ \E landing \in {"unreachable", "no anchor", "anchor"} :
         CASE landing = "unreachable" -> Raise("get_soup") /\ UNCHANGED url_pdf
           [] landing = "no anchor" -> Raise("no link") /\ UNCHANGED url_pdf
           [] landing = "anchor" ->
                pc' = After("link") /\ url_pdf' = PdfUrl /\ UNCHANGED error
    /\ UNCHANGED <<requested, tf, document, metricsLocals, date, incremented>>

\* with tempfile.NamedTemporaryFile() as tf: the file is created.
EnterTempFile ==
    /\ pc = "tempfile"
    /\ tf' = TRUE
    /\ pc' = "download"
    /\ stages' = Append(stages, "pdf")
    /\ UNCHANGED <<url_pdf, requested, document, metricsLocals, date, error,
                   incremented>>

\* f.write(requests.get(url_pdf, verify=False).content)
Download ==
    /\ pc = "download"
    /\ requested' = Append(requested, url_pdf)
    /\ \E answer \in {"error", "content"} :
         IF answer = "error"
         THEN pc' = "unwind" /\ error' = "download"
         ELSE pc' = "extract" /\ UNCHANGED error
    /\ UNCHANGED <<url_pdf, tf, document, metricsLocals, date, stages,
                   incremented>>

\* PdfFileReader(f), reader.getPage(0) and the per-page text extraction.
\* getPage(0) raises on a document without pages, so the list that leaves
\* the block has at least one page.
ExtractPages ==
    /\ pc = "extract"
    /\ \E outcome \in {"not a pdf", "no page 0", "extractText", "pages"} :
         IF outcome = "pages"
         THEN /\ pages' \in PageLists
              /\ front' \in Fronts
              /\ pc' = "exit_with"
              /\ UNCHANGED error
         ELSE /\ pc' = "unwind"
              /\ error' = outcome
              /\ UNCHANGED document
    /\ UNCHANGED <<url_pdf, requested, tf, metricsLocals, date, stages,
                   incremented>>

\* Leaving the with block of a temporary file that is kept when the block
\* raises.
ExitTempFileLeak ==
    /\ pc \in {"exit_with", "unwind"}
    /\ tf' = (pc = "unwind")
    /\ pc' = IF pc = "unwind" THEN "failed" ELSE After("pdf")
    /\ UNCHANGED <<url_pdf, requested, document, metricsLocals, date, error,
                   stages, incremented>>

\* Leaving the with block, by return or by exception: the file is deleted.
ExitTempFile ==
    /\ pc \in {"exit_with", "unwind"}
    /\ tf' = FALSE
    /\ pc' = IF pc = "unwind" THEN "failed" ELSE After("pdf")
    /\ UNCHANGED <<url_pdf, requested, document, metricsLocals, date, error,
                   stages, incremented>>

\* ---------------------------------------------------------- _parse_metrics
\* people_fully_vaccinated taken from the second capture group.
FullyVaccinatedFromPartial(data) == clean_count(data[2])

\* people_fully_vaccinated = clean_count(data.group(3))
FullyVaccinated(data) == clean_count(data[3])

\* The primary-counter regex on pages[0] and the cleaning of its three groups.
ParsePrimary ==
    /\ pc = "metrics"
    /\ stages' = Append(stages, "primary")
    /\ LET data == front.primary IN
         IF data = NoMatch
         THEN /\ Raise("primary regex")
              /\ UNCHANGED <<adults_total_vaccinations,
                             adults_partially_vaccinated, people_fully_vaccinated>>
         ELSE /\ adults_total_vaccinations' = clean_count(data[1])
              /\ adults_partially_vaccinated' = clean_count(data[2])
              /\ people_fully_vaccinated' = FullyVaccinated(data)
              /\ pc' = "teen"
              /\ UNCHANGED error
    /\ UNCHANGED <<url_pdf, requested, tf, document, teenagers_first_doses,
                   total_vaccinations, people_vaccinated, page_no, doses_jj,
                   date, incremented>>

\* total_vaccinations without the teenagers.
TotalVaccinationsAdultsOnly(adults, teens) == adults

\* total_vaccinations = adults_total_vaccinations + teenagers_first_doses
TotalVaccinations(adults, teens) == adults + teens

\* The teen regex on pages[0], its cleaning, and total_vaccinations.
ParseTeen ==
    /\ pc = "teen"
    /\ stages' = Append(stages, "teen")
    /\ LET data == front.teen IN
         IF data = NoMatch
         THEN /\ Raise("teen regex")
              /\ UNCHANGED <<teenagers_first_doses, total_vaccinations>>
         ELSE /\ teenagers_first_doses' = clean_count(data)
              /\ total_vaccinations' =
                    TotalVaccinations(adults_total_vaccinations, clean_count(data))
              /\ pc' = "call_jj"
              /\ UNCHANGED error
    /\ UNCHANGED <<url_pdf, requested, tf, document, adults_total_vaccinations,
                   adults_partially_vaccinated, people_fully_vaccinated,
                   people_vaccinated, page_no, doses_jj, date, incremented>>

\* ------------------------------------------------------- _extract_jj_doses
\* The call self._extract_jj_doses(pages): the loop starts at the first page
\* with doses_jj not yet assigned.
CallExtractJJ ==
    /\ pc = "call_jj"
    /\ stages' = Append(stages, "jj")
    /\ page_no' = 1
    /\ doses_jj' = Unassigned
    /\ pc' = "scan"
    /\ UNCHANGED <<url_pdf, requested, tf, document, adults_total_vaccinations,
                   adults_partially_vaccinated, people_fully_vaccinated,
                   teenagers_first_doses, total_vaccinations, people_vaccinated,
                   date, error, incremented>>

\* A scan without the header check.
HeaderNeverChanged(page) == FALSE

\* if not re.search(rex_header, page)
HeaderChanged(page) == ~page.header

\* A scan that keeps the first count it found.
FirstDoses(doses, page) == IF doses = Unassigned THEN page.jj ELSE doses

\* doses_jj = re.search(rex_jj, page).group(1)
AssignedDoses(doses, page) == page.jj

\* A scan that leaves the loop at the first page whose count it took.
NextPageWithBreak(n, page, last) == IF page.marker THEN last + 1 ELSE n + 1

\* for page in pages: the next iteration.
NextPage(n, page, last) == n + 1

\* One iteration of the loop over the pages.
ScanPage ==
    /\ pc = "scan"
    /\ page_no <= Len(pages)
    /\ LET page == pages[page_no] IN
         IF ~page.marker
         THEN /\ page_no' = NextPage(page_no, page, Len(pages))
              /\ UNCHANGED <<pc, error, doses_jj>>
         ELSE IF HeaderChanged(page)
         THEN /\ Raise("Header columns of table 5 have changed!")
              /\ UNCHANGED <<page_no, doses_jj>>
         ELSE IF page.jj = NoMatch
         THEN /\ Raise("rex_jj regex")
              /\ UNCHANGED <<page_no, doses_jj>>
         ELSE /\ doses_jj' = AssignedDoses(doses_jj, page)
              /\ page_no' = NextPage(page_no, page, Len(pages))
              /\ UNCHANGED <<pc, error>>
    /\ UNCHANGED <<url_pdf, requested, tf, document, adults_total_vaccinations,
                   adults_partially_vaccinated, people_fully_vaccinated,
                   teenagers_first_doses, total_vaccinations, people_vaccinated,
                   date, stages, incremented>>

\* people_vaccinated without the Johnson & Johnson doses.
PeopleVaccinatedWithoutJJ(partial, jj, teens) == partial + teens

\* people_vaccinated = adults_partially_vaccinated + jj doses + teenagers_first_doses
PeopleVaccinated(partial, jj, teens) == partial + jj + teens

\* return clean_count(doses_jj), the sum that uses it, and the return of
\* _parse_metrics.
ReturnJJ ==
    /\ pc = "scan"
    /\ page_no > Len(pages)
    /\ IF doses_jj = Unassigned
       THEN Raise("doses_jj referenced before assignment")
            /\ UNCHANGED people_vaccinated
       ELSE /\ people_vaccinated' =
                 PeopleVaccinated(adults_partially_vaccinated,
                                  clean_count(doses_jj), teenagers_first_doses)
            /\ pc' = After("metrics")
            /\ UNCHANGED error
    /\ UNCHANGED <<url_pdf, requested, tf, document, adults_total_vaccinations,
                   adults_partially_vaccinated, people_fully_vaccinated,
                   teenagers_first_doses, total_vaccinations, page_no, doses_jj,
                   date, stages, incremented>>

\* ------------------------------------------------------------- _parse_date
\* _parse_date with its failures swallowed: the row goes out without a date.
ParseDateSwallowing ==
    /\ pc = "date"
    /\ stages' = Append(stages, "date")
    /\ LET cap == front.date IN
         IF cap = NoMatch \/ ToDatetimeRaises(cap)
         THEN date' = None /\ error' = "date" /\ pc' = After("date")
         ELSE date' = IsoDate(cap) /\ pc' = After("date") /\ UNCHANGED error
    /\ UNCHANGED <<url_pdf, requested, tf, document, metricsLocals, incremented>>

\* The date regex on pages[0], pd.to_datetime on its second group, and the
\* ISO text of the date.
ParseDate ==
    /\ pc = "date"
    /\ stages' = Append(stages, "date")
    /\ LET cap == front.date IN
         IF cap = NoMatch
         THEN Raise("date regex") /\ UNCHANGED date
         ELSE IF ToDatetimeRaises(cap)
         THEN Raise("to_datetime") /\ UNCHANGED date
         ELSE date' = IsoDate(cap) /\ pc' = After("date") /\ UNCHANGED error
    /\ UNCHANGED <<url_pdf, requested, tf, document, metricsLocals, incremented>>

\* ------------------------------------------------------------------ to_csv
\* The pd.Series of read(), the two enrich_data pipes, and the call of
\* increment().
Increment ==
    /\ pc = "row"
    /\ stages' = Append(stages, "row")
    /\ incremented' = Append(incremented,
          [location                |-> "Kenya",
           total_vaccinations      |-> total_vaccinations,
           people_vaccinated       |-> people_vaccinated,
           people_fully_vaccinated |-> people_fully_vaccinated,
           date                    |-> date,
           source_url              |-> url_pdf,
           vaccine                 |-> "Oxford/AstraZeneca, Sputnik V"])
    /\ pc' = "done"
    /\ UNCHANGED <<url_pdf, requested, tf, document, metricsLocals, date, error>>

Next ==
    \/ ParsePdfLink
    \/ EnterTempFile
    \/ Download
    \/ ExtractPages
    \/ ExitTempFile
    \/ ParsePrimary
    \/ ParseTeen
    \/ CallExtractJJ
    \/ ScanPage
    \/ ReturnJJ
    \/ ParseDate
    \/ Increment

Spec == Init /\ [][Next]_vars

\* ------------------------------------------------------------ the claims
Terminal == pc \in {"done", "failed"}
Extracted == pages # <<>>
HeaderDrift == "Header columns of table 5 have changed!"
MarkerPages == {k \in 1..Len(pages) : pages[k].marker}
LastMarker == CHOOSE k \in MarkerPages : \A j \in MarkerPages : j <= k
Emitted == incremented # <<>>

\* C1: the total_vaccinations of an emitted row is the first primary counter
\* of page one plus the teen first doses, whatever the counters are; the
\* Johnson & Johnson count is no part of it.
C1_TotalVaccinations ==
    \A r \in 1..Len(incremented) :
        incremented[r].total_vaccinations =
            clean_count(front.primary[1]) + clean_count(front.teen)

C1_Witness ==
    /\ pc = "done"
    /\ Len(incremented) = 1
    /\ front.primary[1] = <<"1", ",", "0">>
    /\ front.teen = <<"1", ",", "2">>
    /\ incremented[1].total_vaccinations = 22
    /\ clean_count(doses_jj) = 21

\* C2: the people_vaccinated of an emitted row is the second primary counter
\* plus the count the table-5 scan returned plus the teen first doses.
C2_PeopleVaccinated ==
    \A r \in 1..Len(incremented) :
        incremented[r].people_vaccinated =
            clean_count(front.primary[2]) + clean_count(doses_jj)
                + clean_count(front.teen)

C2_Witness ==
    /\ pc = "done"
    /\ Len(incremented) = 1
    /\ front.primary[2] = <<"2", ".">>
    /\ doses_jj = <<"2", ",", "1">>
    /\ front.teen = <<"1", ",", "2">>
    /\ incremented[1].people_vaccinated = 35

\* C3 as stated: whenever a page that carries the table-5 marker has lost
\* the expected header, the run ends with the header-drift error, for any
\* document.
C3_Original ==
    (Terminal /\ Extracted /\ \E k \in MarkerPages : ~pages[k].header)
        => error = HeaderDrift

\* C3 amended: a marker page that has lost the header ends the run with the
\* header-drift error when the primary and teen regexes matched page one and
\* no earlier marker page with an intact header lacks its total row.
C3_HeaderDrift ==
    (/\ Terminal
     /\ Extracted
     /\ front.primary # NoMatch
     /\ front.teen # NoMatch
     /\ \E k \in MarkerPages :
          /\ ~pages[k].header
          /\ \A j \in MarkerPages :
               (j < k /\ pages[j].header) => pages[j].jj # NoMatch)
        => (pc = "failed" /\ error = HeaderDrift)

C3_Witness ==
    /\ pc = "failed"
    /\ error = HeaderDrift
    /\ front.date = NoMatch
    /\ \E k \in MarkerPages : ~pages[k].header /\ pages[k].jj = NoMatch

\* C4 as stated: a failure of the link lookup, the download or extraction,
\* the date regex, the primary regex, the teen regex, the header check or
\* the total-row regex leaves increment uncalled, and a run in which all of
\* them succeeded calls increment exactly once.
ListedFailures == {"get_soup", "no link", "download", "not a pdf", "no page 0",
                   "extractText", "date regex", "primary regex", "teen regex",
                   HeaderDrift, "rex_jj regex"}
ListedAllSucceed ==
    /\ Extracted
    /\ front.date # NoMatch
    /\ front.primary # NoMatch
    /\ front.teen # NoMatch
    /\ MarkerPages # {}
    /\ \A k \in MarkerPages : pages[k].header /\ pages[k].jj # NoMatch
C4_Original ==
    /\ error \in ListedFailures => ~Emitted
    /\ (Terminal /\ ListedAllSucceed) => Len(incremented) = 1

\* C4 amended: a run in which anything raises never calls increment, and a
\* run in which nothing raises calls it exactly once, after the counters,
\* the table-5 count and the date have all been parsed.
C4_FatalErrors ==
    /\ error # NoError => ~Emitted
    /\ Len(incremented) <= 1
    /\ Emitted => pc = "done"
    /\ pc = "done" =>
         /\ error = NoError
         /\ Len(incremented) = 1
         /\ \A s \in {"primary", "teen", "jj", "date"} :
              \E i \in 1..Len(stages) : stages[i] = s
         /\ stages[Len(stages)] = "row"
         /\ date = IsoDate(front.date)
    /\ (Terminal /\ error = NoError) => pc = "done"

C4_Witness ==
    /\ pc = "failed"
    /\ error = "to_datetime"
    /\ ListedAllSucceed
    /\ ~Emitted

\* C5: the PDF is requested only with the URL _parse_pdf_link returned; a
\* landing page without the anchor ends the run with nothing requested.
C5_LinkBeforeDownload ==
    /\ \A r \in 1..Len(requested) : requested[r] = PdfUrl /\ url_pdf = PdfUrl
    /\ (requested # <<>>) => (Len(stages) >= 2 /\ stages[1] = "link")
    /\ error = "no link" => requested = <<>>

C5_Witness == pc = "failed" /\ error = "no link" /\ requested = <<>>

\* C6: the temporary file is gone in every terminal state, whether the with
\* block returned or raised, and it does not exist while the parsing stages
\* or increment run.
C6_TempFileReleased ==
    /\ Terminal => ~tf
    /\ pc \in {"metrics", "teen", "call_jj", "scan", "date", "row"} => ~tf
    /\ tf => pc \in {"download", "extract", "exit_with", "unwind"}

C6_Witness ==
    /\ pc = "failed"
    /\ error = "extractText"
    /\ requested # <<>>
    /\ ~tf

\* C7: the people_fully_vaccinated of an emitted row is the third primary
\* counter of page one and nothing else: it is the same for every teen count
\* and every Johnson & Johnson count.
C7_FullyVaccinated ==
    \A r \in 1..Len(incremented) :
        incremented[r].people_fully_vaccinated = clean_count(front.primary[3])

C7_Witness ==
    /\ pc = "done"
    /\ front.primary = <<<<"7">>, <<"2", ".">>, <<"1", ",", "0">>>>
    /\ front.teen = <<"3">>
    /\ doses_jj = <<"4">>
    /\ incremented[1].people_fully_vaccinated = 10

\* C8 as stated: the date is parsed before the counters, so a document whose
\* date phrase is missing and whose counters are missing or whose table-5
\* header drifted fails with the date-parsing failure.
C8_Original ==
    (/\ Terminal
     /\ Extracted
     /\ front.date = NoMatch
     /\ \/ front.primary = NoMatch
        \/ front.teen = NoMatch
        \/ \E k \in MarkerPages : ~pages[k].header)
        => error = "date regex"

\* C8 amended: the stages run in the order link lookup, download and
\* extraction, primary counters, teen counter, table-5 scan, date, emission,
\* and the run ends in the first stage that fails; a date failure is
\* reported only when the counters and the table-5 scan succeeded.
CodeOrder == <<"link", "pdf", "primary", "teen", "jj", "date", "row">>
StageOf(e) ==
    CASE e \in {"get_soup", "no link"} -> "link"
      [] e \in {"download", "not a pdf", "no page 0", "extractText"} -> "pdf"
      [] e = "primary regex" -> "primary"
      [] e = "teen regex" -> "teen"
      [] e \in {HeaderDrift, "rex_jj regex",
                "doses_jj referenced before assignment"} -> "jj"
      [] e \in {"date regex", "to_datetime"} -> "date"
C8_StageOrder ==
    /\ Len(stages) <= Len(CodeOrder)
    /\ \A i \in 1..Len(stages) : stages[i] = CodeOrder[i]
    /\ pc = "failed" => StageOf(error) = stages[Len(stages)]
    /\ error \in {"date regex", "to_datetime"} =>
         /\ front.primary # NoMatch
         /\ front.teen # NoMatch
         /\ MarkerPages # {}
         /\ \A k \in MarkerPages : pages[k].header /\ pages[k].jj # NoMatch

C8_Witness ==
    /\ pc = "failed"
    /\ error = HeaderDrift
    /\ front.date = NoMatch
    /\ front.primary # NoMatch
    /\ front.teen # NoMatch

\* C9: a page list without the table-5 marker ends the scan in an unhandled
\* error and no row goes out; when several marker pages pass both checks,
\* the count used is that of the last of them in page order.
C9_ScanResult ==
    /\ (Extracted /\ MarkerPages = {}) =>
         /\ ~Emitted
         /\ pc # "done"
         /\ (pc = "scan" /\ page_no > Len(pages)) => doses_jj = Unassigned
         /\ (pc = "failed" /\ stages[Len(stages)] = "jj") =>
                error = "doses_jj referenced before assignment"
    /\ \A r \in 1..Len(incremented) :
         /\ MarkerPages # {}
         /\ incremented[r].people_vaccinated =
              clean_count(front.primary[2]) + clean_count(pages[LastMarker].jj)
                + clean_count(front.teen)

C9_Witness ==
    /\ pc = "done"
    /\ Len(pages) = 2
    /\ pages[1].marker /\ pages[1].jj = <<"4">>
    /\ pages[2].marker /\ pages[2].jj = <<"2", ",", "1">>
    /\ front.primary[2] = <<"7">>
    /\ front.teen = <<"3">>
    /\ incremented[1].people_vaccinated = 31

\* C10: when a row goes out, every page that carries the table-5 marker had
\* the expected header and a total row; a drifted header on any marker page,
\* before or after the page whose count would be used, leaves no row.
C10_AllMarkerPagesChecked ==
    /\ Emitted => \A k \in MarkerPages : pages[k].header /\ pages[k].jj # NoMatch
    /\ (Extracted /\ \E k \in MarkerPages : ~pages[k].header) =>
         (~Emitted /\ pc \notin {"date", "row", "done"})

C10_Witness ==
    /\ pc = "failed"
    /\ error = HeaderDrift
    /\ Len(pages) = 2
    /\ pages[1].marker /\ pages[1].header /\ pages[1].jj = <<"4">>
    /\ pages[2].marker /\ ~pages[2].header
    /\ doses_jj = <<"4">>

=============================================================================
